---- MODULE Spec2Model ----
(***************************************************************************)
(* A model of glacier_upload/upload.py: the multipart upload engine        *)
(* (upload_command, upload, upload_part) with its thread pool, and the     *)
(* tree-hash functions.                                                    *)
(*                                                                         *)
(* Bytes are not modelled one by one.  A bytes object read from the        *)
(* archive is the byte range [lo, hi) it was read from; sha256 is a free   *)
(* (injective) constructor over what it hashes:                            *)
(*     sha256 of a chunk         <<[lo |-> .., hi |-> ..]>>   (1-tuple)     *)
(*     sha256 of two digests     <<a, b>>                     (2-tuple)     *)
(*     Python's None             <<>>                         (0-tuple)     *)
(***************************************************************************)
EXTENDS Integers, Sequences, FiniteSets, TLC

\* ---------------------------------------------------------------- bounds
\* Largest archive of a run, in MiB.
MaxFileMiB == 2
\* Largest --num-threads of a run.
MaxThreads == 2
\* Largest number of part records the remote inventory lists on resume.
MaxRecords == 2
\* Longest list of digests handed to calculate_total_tree_hash in SpecHash.
MaxDigests == 5
\* Largest archive planned in SpecPlan, in MiB.
MaxPlanMiB == 9
\* Largest regular file handed to compress_files in SpecCompress, in bytes.
MaxFileBytes == 1
\* Largest number of parts of the archive uploaded in SpecPool.
MaxPoolJobs == 3

\* ------------------------------------------------------ program constants
MAX_ATTEMPTS == 10
step == 1024 * 1024
SingleShotLimit == 4096
MinPartSize == 1
MaxPartSize == 4096

\* ------------------------------------------------------------- digests
None == <<>>

Bytes(lo, hi) == [lo |-> lo, hi |-> hi]

len(part) == part.hi - part.lo

\* part[a:b], Python slicing of a bytes object (0 <= a <= b).
Slice(part, a, b) ==
    LET lo == IF part.lo + a < part.hi THEN part.lo + a ELSE part.hi
        hi == IF part.lo + b < part.hi THEN part.lo + b ELSE part.hi
    IN  Bytes(lo, hi)

sha256(chunk) == <<chunk>>

\* hashlib.sha256(part1 + part2).hexdigest() of two unhexlified digests.
sha256_pair(part1, part2) == <<part1, part2>>

\* A digest that is the tree hash of no range of the archive: what a service
\* that stored other bytes reports.
OtherChecksum == sha256(Bytes(-1, -1))

min(a, b) == IF a < b THEN a ELSE b

\* range with its stop included: a loop that runs while byte_pos <= file_size.
RECURSIVE range_through(_, _, _)
range_through(start, stop, by) ==
    IF start > stop THEN <<>>
    ELSE <<start>> \o range_through(start + by, stop, by)

\* range(start, stop, by) as a sequence.
RECURSIVE range(_, _, _)
range(start, stop, by) ==
    IF start >= stop THEN <<>> ELSE <<start>> \o range(start + by, stop, by)

\* The pass with the unpaired last digest hashed with itself instead of
\* carried.
RECURSIVE tree_round_doubling(_, _, _)
tree_round_doubling(tree, i, parent) ==
    IF i > Len(tree) THEN parent
    ELSE IF i < Len(tree)
         THEN tree_round_doubling(tree, i + 2,
                  Append(parent, sha256_pair(tree[i], tree[i + 1])))
         ELSE tree_round_doubling(tree, i + 2,
                  Append(parent, sha256_pair(tree[i], tree[i])))

\* One pass of the for loop of calculate_total_tree_hash over tree, from the
\* 1-based index i, appending to parent.
RECURSIVE tree_round(_, _, _)
tree_round(tree, i, parent) ==
    IF i > Len(tree) THEN parent
    ELSE IF i < Len(tree)
         THEN tree_round(tree, i + 2,
                         Append(parent, sha256_pair(tree[i], tree[i + 1])))
         ELSE tree_round(tree, i + 2, Append(parent, tree[i]))

\* calculate_total_tree_hash raises on these lists: tree[0] of an empty list
\* (IndexError), unhexlify(None) when a pair holds None (TypeError).
total_tree_hash_raises(list_of_checksums) ==
    \/ Len(list_of_checksums) = 0
    \/ /\ Len(list_of_checksums) > 1
       /\ \E i \in 1..Len(list_of_checksums) : list_of_checksums[i] = None

RECURSIVE calculate_total_tree_hash(_)
calculate_total_tree_hash(list_of_checksums) ==
    IF Len(list_of_checksums) > 1
    THEN calculate_total_tree_hash(tree_round(list_of_checksums, 1, <<>>))
    ELSE list_of_checksums[1]

\* The checksums list calculate_tree_hash builds: one sha256 per 1 MiB chunk.
chunk_checksums(part, part_size) ==
    LET upper_bound == min(len(part), part_size)
        starts == range(0, upper_bound, step)
    IN  [k \in 1..Len(starts) |->
            sha256(Slice(part, starts[k], starts[k] + step))]

calculate_tree_hash(part, part_size) ==
    calculate_total_tree_hash(chunk_checksums(part, part_size))

\* fileobj.read(n) at position pos of an archive of file_size bytes.
read(pos, n, size) ==
    IF pos >= size THEN Bytes(size, size) ELSE Bytes(pos, min(pos + n, size))

\* math.log2(n).is_integer() for n >= 1.
RECURSIVE log2_is_integer(_)
log2_is_integer(n) ==
    IF n = 1 THEN TRUE
    ELSE IF n % 2 = 1 THEN FALSE ELSE log2_is_integer(n \div 2)

\* The checks without the test of the power of two.
part_size_raises_range_only(n) ==
    \/ n < MinPartSize
    \/ n > MaxPartSize

\* upload's checks of --part-size (in MiB): both raise ValueError.
\* math.log2 itself raises ValueError for n <= 0.
part_size_raises(n) ==
    \/ n <= 0
    \/ ~log2_is_integer(n)
    \/ n < MinPartSize
    \/ n > MaxPartSize

\* ------------------------------------------------------------- the state
VARIABLES
    file_names,         \* upload_command: the --file-name paths, by kind
    do_not_compress,    \* upload_command: --do-not-compress
    num_threads,        \* --num-threads
    file_size,          \* size of the archive opened for upload
    part_size,          \* upload: --part-size in MiB, then the part size in bytes
    upload_id,          \* upload: --upload-id ("None" when absent), then the session's
    pc,                 \* position of the main thread
    job_list,           \* upload: offsets still to upload
    list_of_checksums,  \* upload: digest per part index, None where unknown
    num_parts,          \* upload: len(job_list) as planned
    parts,              \* upload: part records fetched from list_parts
    marker,             \* upload: "Marker" in response
    bar,                \* upload: 1-based index of the next record to verify
    futures_list,       \* upload: the futures, in submission order
    done,               \* upload: wait()'s done set (indexes of futures_list)
    not_done,           \* upload: wait()'s not_done set, then those still to cancel
    fileblock,          \* the module's lock: 0 when free, else the holder's index
    position,           \* the archive's read cursor
    closed,             \* file_to_upload.closed
    calls,              \* remote calls issued, by operation
    total_tree_hash,    \* upload: checksum sent with complete_multipart_upload
    out,                \* what the process printed and how it ended
    disk,               \* the files compress_files is pointed at, by path
    tar                 \* compress_files: its frame and the archive it writes

vars == <<file_names, do_not_compress, num_threads, file_size, part_size,
          upload_id, pc, job_list, list_of_checksums, num_parts, parts, marker,
          bar, futures_list, done, not_done, fileblock, position, closed,
          calls, total_tree_hash, out, disk, tar>>

argv_vars == <<file_names, do_not_compress, num_threads>>
plan_vars == <<job_list, list_of_checksums, num_parts>>
list_vars == <<parts, marker, bar>>
pool_vars == <<futures_list, done, not_done, fileblock>>
file_vars == <<position, closed>>
tar_vars == <<disk, tar>>

\* ------------------------------------------------------------- the inputs
FileKinds == {"file", "dir", "symlink"}

FileNameLists == {<<a>> : a \in FileKinds} \cup {<<a, b>> : a, b \in FileKinds}

\* --part-size values: not a power of two, below and above the range, valid.
\* (4096 MiB in bytes is beyond the integers TLC computes with.)
PartSizeArgs == {0, 1, 2, 3, 2 * MaxPartSize}

FileSizes ==
    {SingleShotLimit - 1, SingleShotLimit}
        \cup {k * step : k \in 1..MaxFileMiB}
        \cup {k * step + 1 : k \in 1..(MaxFileMiB - 1)}

\* PartSizeInBytes of the session being resumed.
RemotePartSizes == {step, 2 * step}

\* The part records a session of part size p may list for the local archive
\* of size bytes: a start offset on a part boundary, inside the archive or
\* beyond its end (the session was fed from a longer archive), with the tree
\* hash of the local bytes of that range or another digest.
RemoteRecords(p, size) ==
    LET starts == {k * p : k \in 0..MaxFileMiB} \cap 0..(MaxFileMiB * step)
        sums(s) == {OtherChecksum} \cup
                   (IF s < size
                    THEN {calculate_tree_hash(read(s, p, size), p)} ELSE {})
    IN  UNION {{[RangeInBytes |-> <<s, s + p - 1>>, SHA256TreeHash |-> c] :
                    c \in sums(s)} : s \in starts}

RECURSIVE SeqsUpTo(_, _)
SeqsUpTo(S, n) ==
    IF n = 0 THEN {<<>>}
    ELSE LET shorter == SeqsUpTo(S, n - 1)
         IN  shorter \cup {Append(q, x) : q \in shorter, x \in S}

\* What a path names on the disk.
Absent == [kind |-> "none", size |-> 0]

Dir == [kind |-> "dir", size |-> 0]

Symlink == [kind |-> "symlink", size |-> 0]

File(size) == [kind |-> "file", size |-> size]

\* The paths of the disk: two names of the working directory, and what lies
\* under the second when it is a directory.
Paths == {"a", "d", "d/b", "d/e", "d/e/c"}

Parent ==
    [q \in Paths |-> CASE q = "d/b" -> "d"
                      [] q = "d/e" -> "d"
                      [] q = "d/e/c" -> "d/e"
                      [] OTHER -> "."]

NoDisk == [q \in Paths |-> Absent]

\* compress_files has not been called.
NoTar == [at |-> "none", given |-> <<>>, exists |-> FALSE, members |-> <<>>,
          total_bytes_to_compress |-> 0, total_bytes_compressed |-> 0,
          exception |-> "None", extracted |-> NoDisk]

NoCalls == [initiate_multipart_upload |-> 0, list_parts |-> 0,
            upload_multipart_part |-> 0, upload_archive |-> 0,
            complete_multipart_upload |-> 0]

NoOutput == [upload_id_printed |-> FALSE, exception |-> "None",
             exit_status |-> -1, glacier_checksum |-> None, printed |-> {}]

Init ==
    /\ file_names \in FileNameLists
    /\ do_not_compress \in BOOLEAN
    /\ num_threads \in 1..MaxThreads
    /\ file_size \in FileSizes
    /\ part_size \in PartSizeArgs
    /\ upload_id \in {"None", "resumed"}
    /\ pc = "upload_command"
    /\ job_list = <<>>
    /\ list_of_checksums = <<>>
    /\ num_parts = 0
    /\ parts = <<>>
    /\ marker = FALSE
    /\ bar = 1
    /\ futures_list = <<>>
    /\ done = {}
    /\ not_done = {}
    /\ fileblock = 0
    /\ position = 0
    /\ closed = FALSE
    /\ calls = NoCalls
    /\ total_tree_hash = None
    /\ out = NoOutput
    /\ disk = NoDisk
    /\ tar = NoTar

\* An exception leaves upload(): nothing below the raise runs.
Raise(exception) ==
    /\ pc' = "raised"
    /\ out' = [out EXCEPT !.exception = exception]

Called(operation) == calls' = [calls EXCEPT ![operation] = @ + 1]

\* ------------------------------------------------------- the main thread
\* upload_command up to the call of upload: the checks of the file names,
\* then compress_files, which pops the names off file_names and raises
\* ZeroDivisionError when they hold no byte (SpecCompress has it step by
\* step); nothing reads file_names after it.
UploadCommand ==
    /\ pc = "upload_command"
    /\ IF \/ \E k \in 1..Len(file_names) : file_names[k] = "symlink"
          \/ do_not_compress /\ Len(file_names) > 1
          \/ do_not_compress /\ file_names[1] # "file"
       THEN /\ pc' = "exit"
            /\ out' = [out EXCEPT !.exception = "ValueError", !.exit_status = 1]
            /\ UNCHANGED file_names
       ELSE IF do_not_compress
       THEN /\ pc' = "upload"
            /\ UNCHANGED <<file_names, out>>
       ELSE /\ file_names' = <<>>
            /\ \E raised \in BOOLEAN :
                  IF raised
                  THEN /\ pc' = "exit"
                       /\ out' = [out EXCEPT !.exception = "ZeroDivisionError",
                                             !.exit_status = 1]
                  ELSE /\ pc' = "upload"
                       /\ UNCHANGED out
    /\ UNCHANGED <<tar_vars, do_not_compress, num_threads, file_size,
                   part_size, upload_id, plan_vars, list_vars, pool_vars,
                   file_vars, calls, total_tree_hash>>

\* upload: the checks of part_size and its conversion to bytes.
CheckPartSize ==
    /\ pc = "upload"
    /\ IF part_size_raises(part_size)
       THEN Raise("ValueError") /\ UNCHANGED part_size
       ELSE /\ part_size' = part_size * 1024 * 1024
            /\ pc' = "size_check"
            /\ UNCHANGED out
    /\ UNCHANGED <<tar_vars, argv_vars, file_size, upload_id, plan_vars, list_vars,
                   pool_vars, file_vars, calls, total_tree_hash>>

\* The test with the limit included.
single_shot_inclusive(size) == size <= SingleShotLimit

\* upload: the test of the single request, if file_size < 4096.
single_shot(size) == size < SingleShotLimit

\* upload: file_size = seek(0, 2), seek(0), and the choice of the path.
SizeCheck ==
    /\ pc = "size_check"
    /\ position' = 0
    /\ pc' = IF single_shot(file_size) THEN "upload_archive"
             ELSE IF upload_id = "None" THEN "initiate" ELSE "list_parts"
    /\ UNCHANGED <<tar_vars, argv_vars, file_size, part_size, upload_id, plan_vars,
                   list_vars, pool_vars, closed, calls, total_tree_hash, out>>

\* upload: the single request of a small archive.
UploadArchive ==
    /\ pc = "upload_archive"
    /\ Called("upload_archive")
    /\ \E raised \in BOOLEAN :
          IF raised
          THEN Raise("ClientError") /\ UNCHANGED file_vars
          ELSE /\ position' = file_size
               /\ closed' = TRUE
               /\ pc' = "returned"
               /\ UNCHANGED out
    /\ UNCHANGED <<tar_vars, argv_vars, file_size, part_size, upload_id, plan_vars,
                   list_vars, pool_vars, total_tree_hash>>

\* The job list and the checksum list of an archive, as both branches of
\* upload build them.
Planned(size, by) ==
    LET offsets == range(0, size, by)
    IN  [job_list |-> offsets,
         list_of_checksums |-> [k \in 1..Len(offsets) |-> None],
         num_parts |-> Len(offsets)]

\* upload, no upload id given: initiate_multipart_upload and the plan.
Initiate ==
    /\ pc = "initiate"
    /\ Called("initiate_multipart_upload")
    /\ \E raised \in BOOLEAN :
          IF raised
          THEN Raise("ClientError") /\ UNCHANGED <<upload_id, plan_vars>>
          ELSE /\ upload_id' = "initiated"
               /\ job_list' = Planned(file_size, part_size).job_list
               /\ list_of_checksums' =
                      Planned(file_size, part_size).list_of_checksums
               /\ num_parts' = Planned(file_size, part_size).num_parts
               /\ pc' = "spawn"
               /\ UNCHANGED out
    /\ UNCHANGED <<tar_vars, argv_vars, file_size, part_size, list_vars, pool_vars,
                   file_vars, total_tree_hash>>

\* The pages list_parts may answer with when fetched records are known: up to
\* MaxRecords records over all pages, a Marker only with more to come.
Pages(p, fetched) ==
    {r \in [Parts : SeqsUpTo(RemoteRecords(p, file_size), MaxRecords - fetched),
            Marker : BOOLEAN] :
        r.Marker => Len(r.Parts) >= 1 /\ fetched + Len(r.Parts) < MaxRecords}

\* upload, resuming: the first list_parts call.
ListParts ==
    /\ pc = "list_parts"
    /\ Called("list_parts")
    /\ \E raised \in BOOLEAN :
          IF raised
          THEN Raise("ClientError") /\ UNCHANGED <<part_size, parts, marker>>
          ELSE \E p \in RemotePartSizes : \E response \in Pages(p, 0) :
                  /\ parts' = response.Parts
                  /\ part_size' = p
                  /\ marker' = response.Marker
                  /\ pc' = "list_more"
                  /\ UNCHANGED out
    /\ UNCHANGED <<tar_vars, argv_vars, file_size, upload_id, plan_vars, bar, pool_vars,
                   file_vars, total_tree_hash>>

\* A later page taking the place of the records fetched before it.
extend_replacing(list, more) == more

\* list.extend(more)
extend(list, more) == list \o more

\* upload, resuming: one turn of the while loop over the Marker; when the
\* response holds none, the plan of the archive.
ListMore ==
    /\ pc = "list_more"
    /\ IF marker
       THEN /\ Called("list_parts")
            /\ \E raised \in BOOLEAN :
                  IF raised
                  THEN Raise("ClientError") /\ UNCHANGED <<parts, marker>>
                  ELSE \E response \in Pages(part_size, Len(parts)) :
                          /\ parts' = extend(parts, response.Parts)
                          /\ marker' = response.Marker
                          /\ UNCHANGED <<pc, out>>
            /\ UNCHANGED plan_vars
       ELSE /\ job_list' = Planned(file_size, part_size).job_list
            /\ list_of_checksums' =
                   Planned(file_size, part_size).list_of_checksums
            /\ num_parts' = Planned(file_size, part_size).num_parts
            /\ pc' = "verify"
            /\ UNCHANGED <<parts, marker, calls, out>>
    /\ UNCHANGED <<tar_vars, argv_vars, file_size, part_size, upload_id, bar, pool_vars,
                   file_vars, total_tree_hash>>

\* A removal that removes nothing.
remove_nothing(list, x) == list

\* list.remove(x): the list without the first x.
RECURSIVE remove(_, _)
remove(list, x) ==
    IF list = <<>> THEN <<>>
    ELSE IF Head(list) = x THEN Tail(list)
         ELSE <<Head(list)>> \o remove(Tail(list), x)

in(x, list) == \E k \in 1..Len(list) : list[k] = x

\* int(part_data["RangeInBytes"].partition("-")[0])
byte_start_of(part_data) == part_data.RangeInBytes[1]

\* The comparison left out: the remote record is trusted.
verified_trusting(checksum, part_data) == TRUE

\* upload, resuming: if checksum == part_data["SHA256TreeHash"]
verified(checksum, part_data) == checksum = part_data.SHA256TreeHash

\* upload, resuming: one turn of the loop verifying the fetched records.
\* Nothing reads parts after the loop: the model lets go of it there.
Verify ==
    /\ pc = "verify"
    /\ IF bar > Len(parts)
       THEN /\ pc' = "spawn"
            /\ parts' = <<>>
            /\ bar' = 1
            /\ UNCHANGED <<plan_vars, position, out>>
       ELSE LET part_data == parts[bar]
                byte_start == byte_start_of(part_data)
                part == read(byte_start, part_size, file_size)
                part_num == byte_start \div part_size
            IN  /\ position' = byte_start + len(part)
                /\ IF len(part) = 0
                   THEN Raise("IndexError")
                        /\ UNCHANGED <<plan_vars, parts, bar>>
                   ELSE IF verified(calculate_tree_hash(part, part_size),
                                    part_data)
                   THEN IF ~in(byte_start, job_list)
                        THEN Raise("ValueError")
                             /\ UNCHANGED <<plan_vars, parts, bar>>
                        ELSE /\ job_list' = remove(job_list, byte_start)
                             /\ list_of_checksums' =
                                    [list_of_checksums EXCEPT ![part_num + 1] =
                                        calculate_tree_hash(part, part_size)]
                             /\ bar' = bar + 1
                             /\ UNCHANGED <<num_parts, parts, pc, out>>
                   ELSE /\ bar' = bar + 1
                        /\ UNCHANGED <<plan_vars, parts, pc, out>>
    /\ UNCHANGED <<tar_vars, argv_vars, file_size, part_size, upload_id, marker,
                   pool_vars, closed, calls, total_tree_hash>>

\* ------------------------------------------------------------- the pool
\* A future of executor.submit(upload_part, job, ...), with the frame of the
\* upload_part call running it: at (its position), part, i, checksum, and
\* calls, the upload_multipart_part calls it has issued.
Future(job) ==
    [job |-> job, state |-> "PENDING", at |-> "none", part |-> Bytes(0, 0),
     i |-> 0, calls |-> 0, checksum |-> None, exception |-> "None"]

Futures == 1..Len(futures_list)

Running == {k \in Futures : futures_list[k].state = "RUNNING"}

\* upload: the executor and the submission of every job of job_list.
Spawn ==
    /\ pc = "spawn"
    /\ futures_list' = [k \in 1..Len(job_list) |-> Future(job_list[k])]
    /\ pc' = "wait"
    /\ UNCHANGED <<tar_vars, argv_vars, file_size, part_size, upload_id, plan_vars,
                   list_vars, done, not_done, fileblock, file_vars, calls,
                   total_tree_hash, out>>

\* A worker thread of the executor takes the next work item of the queue.
StartJob(k) ==
    /\ futures_list[k].state = "PENDING"
    /\ \A j \in 1..(k - 1) : futures_list[j].state # "PENDING"
    /\ Cardinality(Running) < num_threads
    /\ futures_list' = [futures_list EXCEPT ![k].state = "RUNNING",
                                            ![k].at = "acquire"]
    /\ UNCHANGED <<tar_vars, argv_vars, file_size, part_size, upload_id, pc, plan_vars,
                   list_vars, done, not_done, fileblock, file_vars, calls,
                   total_tree_hash, out>>

\* The future of a call that raised.
Raised(future, exception) ==
    [future EXCEPT !.state = "FINISHED", !.at = "none",
                   !.exception = exception]

\* upload_part: fileblock.acquire()
Acquire(k) ==
    /\ futures_list[k].at = "acquire"
    /\ fileblock = 0
    /\ fileblock' = k
    /\ futures_list' = [futures_list EXCEPT ![k].at = "seek"]
    /\ UNCHANGED <<tar_vars, argv_vars, file_size, part_size, upload_id, pc, plan_vars,
                   list_vars, done, not_done, file_vars, calls,
                   total_tree_hash, out>>

\* upload_part: fileobj.seek(byte_pos), which raises on a closed file.
Seek(k) ==
    /\ futures_list[k].at = "seek"
    /\ IF closed
       THEN /\ futures_list' =
                   [futures_list EXCEPT ![k] = Raised(@, "ValueError")]
            /\ UNCHANGED position
       ELSE /\ position' = futures_list[k].job
            /\ futures_list' = [futures_list EXCEPT ![k].at = "read"]
    /\ UNCHANGED <<tar_vars, argv_vars, file_size, part_size, upload_id, pc, plan_vars,
                   list_vars, done, not_done, fileblock, closed, calls,
                   total_tree_hash, out>>

\* upload_part: part = fileobj.read(part_size)
Read(k) ==
    /\ futures_list[k].at = "read"
    /\ IF closed
       THEN /\ futures_list' =
                   [futures_list EXCEPT ![k] = Raised(@, "ValueError")]
            /\ UNCHANGED position
       ELSE LET part == read(position, part_size, file_size)
            IN  /\ position' = position + len(part)
                /\ futures_list' = [futures_list EXCEPT ![k].at = "release",
                                                        ![k].part = part]
    /\ UNCHANGED <<tar_vars, argv_vars, file_size, part_size, upload_id, pc, plan_vars,
                   list_vars, done, not_done, fileblock, closed, calls,
                   total_tree_hash, out>>

\* upload_part: fileblock.release(), then the headers of the part.
Release(k) ==
    /\ futures_list[k].at = "release"
    /\ fileblock' = 0
    /\ futures_list' = [futures_list EXCEPT ![k].at = "upload"]
    /\ UNCHANGED <<tar_vars, argv_vars, file_size, part_size, upload_id, pc, plan_vars,
                   list_vars, done, not_done, file_vars, calls,
                   total_tree_hash, out>>

\* The loop with one attempt too many.
Failed_OneMore(future) ==
    IF future.i < MAX_ATTEMPTS
    THEN [future EXCEPT !.i = @ + 1, !.calls = @ + 1]
    ELSE [future EXCEPT !.state = "FINISHED", !.at = "none",
                        !.exception = "SystemExit", !.calls = @ + 1]

\* The frame after attempt i failed: the next attempt, or the else of the
\* for loop, sys.exit(1), after the last.
Failed(future) ==
    IF future.i + 1 < MAX_ATTEMPTS
    THEN [future EXCEPT !.i = @ + 1, !.calls = @ + 1]
    ELSE [Raised(future, "SystemExit") EXCEPT !.calls = @ + 1]

\* The frame after an attempt whose checksum matched: return checksum.
Succeeded(future, checksum) ==
    [future EXCEPT !.state = "FINISHED", !.at = "none", !.calls = @ + 1,
                   !.checksum = checksum]

\* The frame after one turn of the for loop of upload_part, the call having
\* raised or answered with response_checksum.
Attempted(future, raised, response_checksum) ==
    IF raised \/ len(future.part) = 0
    THEN Failed(future)
    ELSE IF calculate_tree_hash(future.part, part_size) # response_checksum
         THEN Failed(future)
         ELSE Succeeded(future, calculate_tree_hash(future.part, part_size))

\* What upload_multipart_part may answer for a part: its tree hash, or
\* another digest.
ResponseChecksums(part) ==
    {OtherChecksum} \cup
    (IF len(part) = 0 THEN {} ELSE {calculate_tree_hash(part, part_size)})

\* upload_part: one turn of the for loop, one upload_multipart_part call.
UploadAttempt(k) ==
    /\ futures_list[k].at = "upload"
    /\ \E raised \in BOOLEAN :
       \E response_checksum \in ResponseChecksums(futures_list[k].part) :
          futures_list' = [futures_list EXCEPT
                              ![k] = Attempted(@, raised, response_checksum)]
    /\ Called("upload_multipart_part")
    /\ UNCHANGED <<tar_vars, argv_vars, file_size, part_size, upload_id, pc, plan_vars,
                   list_vars, done, not_done, fileblock, file_vars,
                   total_tree_hash, out>>

\* ------------------------------------------- the main thread, continued
Finished == {k \in Futures : futures_list[k].state = "FINISHED"}

WithException == {k \in Finished : futures_list[k].exception # "None"}

\* concurrent.futures.wait(futures_list, return_when=FIRST_EXCEPTION) returns
\* once a future has raised or every future is done, with the futures
\* finished by then.
Wait ==
    /\ pc = "wait"
    /\ WithException # {} \/ Finished = Futures
    /\ done' = Finished
    /\ not_done' = Futures \ Finished
    /\ pc' = IF Futures \ Finished # {} THEN "cancel" ELSE "collect"
    /\ UNCHANGED <<tar_vars, argv_vars, file_size, part_size, upload_id, plan_vars,
                   list_vars, futures_list, fileblock, file_vars, calls,
                   total_tree_hash, out>>

\* Future.cancel(): only a future no worker has taken is cancelled.
cancel(future) ==
    IF future.state = "PENDING" THEN [future EXCEPT !.state = "CANCELLED"]
    ELSE future

\* upload: one turn of the loop over not_done, in the order of a set; not_done
\* keeps the futures the loop has yet to visit.
Cancel ==
    /\ pc = "cancel"
    /\ \E k \in not_done :
          /\ futures_list' = [futures_list EXCEPT ![k] = cancel(@)]
          /\ not_done' = not_done \ {k}
    /\ UNCHANGED <<tar_vars, argv_vars, file_size, part_size, upload_id, pc, plan_vars,
                   list_vars, done, fileblock, file_vars, calls,
                   total_tree_hash, out>>

\* upload: after the loops, the upload id is printed, the archive closed,
\* and sys.exit(1) leaves the with block of the executor.
Report ==
    /\ pc = "cancel"
    /\ not_done = {}
    /\ out' = [out EXCEPT !.upload_id_printed = TRUE,
                          !.exception = "SystemExit"]
    /\ closed' = TRUE
    /\ pc' = "shutdown"
    /\ UNCHANGED <<tar_vars, argv_vars, file_size, part_size, upload_id, plan_vars,
                   list_vars, pool_vars, position, calls, total_tree_hash>>

\* ThreadPoolExecutor.__exit__: shutdown(wait=True) returns when the queue is
\* drained and every worker has returned; the exception goes on.
Shutdown ==
    /\ pc = "shutdown"
    /\ \A k \in Futures : futures_list[k].state \in {"FINISHED", "CANCELLED"}
    /\ pc' = "raised"
    /\ UNCHANGED <<tar_vars, argv_vars, file_size, part_size, upload_id, plan_vars,
                   list_vars, pool_vars, file_vars, calls, total_tree_hash,
                   out>>

\* The results added at the end of the list, as they come.
Collected_Appending(checksums, from) ==
    checksums \o [n \in 1..Cardinality(from) |-> OtherChecksum]

\* The results stored against the order of the parts: the result of part
\* index n at the n-th place from the end.
Collected_Reversed(checksums, from) ==
    [n \in 1..Len(checksums) |->
        IF \E k \in from :
               futures_list[k].job \div part_size = Len(checksums) - n
        THEN LET k == CHOOSE k \in from :
                          futures_list[k].job \div part_size
                              = Len(checksums) - n
             IN  futures_list[k].checksum
        ELSE checksums[n]]

\* list_of_checksums with the result of every future of a set stored at the
\* part index of its job.
Collected(checksums, from) ==
    [n \in 1..Len(checksums) |->
        IF \E k \in from : futures_list[k].job \div part_size = n - 1
        THEN LET k == CHOOSE k \in from :
                          futures_list[k].job \div part_size = n - 1
             IN  futures_list[k].checksum
        ELSE checksums[n]]

\* The results collected without looking at what the calls raised.
Collect_Unchecked ==
    /\ pc = "collect"
    /\ list_of_checksums' =
           [n \in 1..Len(list_of_checksums) |->
               IF \E k \in done : futures_list[k].job \div part_size = n - 1
               THEN LET k == CHOOSE k \in done :
                                 futures_list[k].job \div part_size = n - 1
                    IN  futures_list[k].checksum
               ELSE list_of_checksums[n]]
    /\ pc' = "backstop"
    /\ UNCHANGED <<tar_vars, argv_vars, file_size, part_size, upload_id, job_list,
                   num_parts, list_vars, pool_vars, file_vars, calls,
                   total_tree_hash, out>>

\* upload: every future is done; future.result() returns the checksum or
\* raises what the call raised.
Collect ==
    /\ pc = "collect"
    /\ IF done \cap WithException # {}
       THEN /\ \E k \in done \cap WithException :
                  Raise(futures_list[k].exception)
            /\ UNCHANGED list_of_checksums
       ELSE /\ list_of_checksums' = Collected(list_of_checksums, done)
            /\ pc' = "backstop"
            /\ UNCHANGED out
    /\ UNCHANGED <<tar_vars, argv_vars, file_size, part_size, upload_id, job_list,
                   num_parts, list_vars, pool_vars, file_vars, calls,
                   total_tree_hash>>

\* The checksums recomputed from the archive, part by part.
Recalculated ==
    LET offsets == range(0, file_size, part_size)
    IN  [n \in 1..Len(offsets) |->
            calculate_tree_hash(read(offsets[n], part_size, file_size),
                                part_size)]

\* upload: the check of the length of list_of_checksums.
Backstop ==
    /\ pc = "backstop"
    /\ IF Len(list_of_checksums) # num_parts
       THEN /\ list_of_checksums' = Recalculated
            /\ position' = file_size
       ELSE UNCHANGED <<list_of_checksums, position>>
    /\ pc' = "complete"
    /\ UNCHANGED <<tar_vars, argv_vars, file_size, part_size, upload_id, job_list,
                   num_parts, list_vars, pool_vars, closed, calls,
                   total_tree_hash, out>>

\* upload: what the six timed_print calls after complete_multipart_upload
\* print, whatever checksum the response holds.
CompletionLines ==
    {"Upload successful.", "Calculated total tree hash: %s",
     "Glacier total tree hash: %s", "Location: %s", "Archive ID: %s", "Done."}

\* upload: the total tree hash and complete_multipart_upload.
Complete ==
    /\ pc = "complete"
    /\ IF total_tree_hash_raises(list_of_checksums)
       THEN /\ Raise(IF Len(list_of_checksums) = 0 THEN "IndexError"
                     ELSE "TypeError")
            /\ UNCHANGED <<total_tree_hash, calls, closed>>
       ELSE /\ total_tree_hash' = calculate_total_tree_hash(list_of_checksums)
            /\ Called("complete_multipart_upload")
            /\ \E raised \in BOOLEAN :
               \E checksum \in {total_tree_hash', OtherChecksum} :
                  IF raised
                  THEN Raise("ClientError") /\ UNCHANGED closed
                  ELSE /\ out' = [out EXCEPT !.glacier_checksum = checksum,
                                          !.printed = CompletionLines]
                       /\ closed' = TRUE
                       /\ pc' = "returned"
    /\ UNCHANGED <<tar_vars, argv_vars, file_size, part_size, upload_id, plan_vars,
                   list_vars, pool_vars, position>>

\* upload_command after upload: the with block closes the archive; the
\* process ends with status 0 when upload returned, 1 when it raised.
CommandExit ==
    /\ pc \in {"returned", "raised"}
    /\ closed' = TRUE
    /\ out' = [out EXCEPT !.exit_status = IF pc = "returned" THEN 0 ELSE 1]
    /\ pc' = "exit"
    /\ UNCHANGED <<tar_vars, argv_vars, file_size, part_size, upload_id, plan_vars,
                   list_vars, pool_vars, position, calls, total_tree_hash>>

Next ==
    \/ UploadCommand
    \/ CheckPartSize
    \/ SizeCheck
    \/ UploadArchive
    \/ Initiate
    \/ ListParts
    \/ ListMore
    \/ Verify
    \/ Spawn
    \/ \E k \in Futures : StartJob(k)
    \/ \E k \in Futures : Acquire(k)
    \/ \E k \in Futures : Seek(k)
    \/ \E k \in Futures : Read(k)
    \/ \E k \in Futures : Release(k)
    \/ \E k \in Futures : UploadAttempt(k)
    \/ Wait
    \/ Cancel
    \/ Report
    \/ Shutdown
    \/ Collect
    \/ Backstop
    \/ Complete
    \/ CommandExit

Spec == Init /\ [][Next]_vars

\* ---------------------------------------------- the functions on their own
\* Every variable the two specifications below leave alone.
Unused ==
    /\ file_names = <<>>
    /\ do_not_compress = FALSE
    /\ num_threads = 1
    /\ upload_id = "None"
    /\ parts = <<>>
    /\ marker = FALSE
    /\ bar = 1
    /\ futures_list = <<>>
    /\ done = {}
    /\ not_done = {}
    /\ fileblock = 0
    /\ position = 0
    /\ closed = FALSE
    /\ calls = NoCalls
    /\ out = NoOutput
    /\ disk = NoDisk
    /\ tar = NoTar

\* The digests of the first 1 MiB chunks of an archive.
ChunkDigests == {sha256(Bytes(k * step, (k + 1) * step)) : k \in 0..2}

InitHash ==
    /\ Unused
    /\ pc = "hash"
    /\ file_size = 0
    /\ part_size = 0
    /\ job_list = <<>>
    /\ num_parts = 0
    /\ list_of_checksums \in SeqsUpTo(ChunkDigests, MaxDigests) \ {<<>>}
    /\ total_tree_hash = None

\* calculate_total_tree_hash applied to list_of_checksums.
Hash ==
    /\ pc = "hash"
    /\ total_tree_hash' = calculate_total_tree_hash(list_of_checksums)
    /\ pc' = "hashed"
    /\ UNCHANGED <<tar_vars, argv_vars, file_size, part_size, upload_id, plan_vars,
                   list_vars, pool_vars, file_vars, calls, out>>

SpecHash == InitHash /\ [][Hash]_vars

\* Archive sizes around every multiple of 1 MiB, none below the size of a
\* multipart upload.
PlanFileSizes ==
    {SingleShotLimit} \cup
    {n \in {k * step + d : k \in 1..MaxPlanMiB, d \in {-1, 0, 1}} :
        n <= MaxPlanMiB * step}

PlanPartSizes == {step, 2 * step, 4 * step, 8 * step}

InitPlan ==
    /\ Unused
    /\ pc = "plan"
    /\ file_size \in PlanFileSizes
    /\ part_size \in PlanPartSizes
    /\ job_list = <<>>
    /\ num_parts = 0
    /\ list_of_checksums = <<>>
    /\ total_tree_hash = None

\* The plan of upload applied to file_size and part_size.
Plan ==
    /\ pc = "plan"
    /\ job_list' = Planned(file_size, part_size).job_list
    /\ list_of_checksums' = Planned(file_size, part_size).list_of_checksums
    /\ num_parts' = Planned(file_size, part_size).num_parts
    /\ pc' = "planned"
    /\ UNCHANGED <<tar_vars, argv_vars, file_size, part_size, upload_id, list_vars,
                   pool_vars, file_vars, calls, total_tree_hash, out>>

SpecPlan == InitPlan /\ [][Plan]_vars

\* ------------------------------------- a fresh upload, fairly scheduled
\* upload_command --do-not-compress on a regular file of 1 to MaxPoolJobs
\* MiB, --part-size 1, no --upload-id.
InitPool ==
    /\ file_names = <<"file">>
    /\ do_not_compress = TRUE
    /\ num_threads \in 1..MaxThreads
    /\ file_size \in {k * step : k \in 1..MaxPoolJobs}
    /\ part_size = 1
    /\ upload_id = "None"
    /\ pc = "upload_command"
    /\ job_list = <<>>
    /\ list_of_checksums = <<>>
    /\ num_parts = 0
    /\ parts = <<>>
    /\ marker = FALSE
    /\ bar = 1
    /\ futures_list = <<>>
    /\ done = {}
    /\ not_done = {}
    /\ fileblock = 0
    /\ position = 0
    /\ closed = FALSE
    /\ calls = NoCalls
    /\ total_tree_hash = None
    /\ out = NoOutput
    /\ disk = NoDisk
    /\ tar = NoTar

\* The steps of such a run.
NextPool ==
    \/ UploadCommand
    \/ CheckPartSize
    \/ SizeCheck
    \/ Initiate
    \/ Spawn
    \/ \E k \in Futures : StartJob(k)
    \/ \E k \in Futures : Acquire(k)
    \/ \E k \in Futures : Seek(k)
    \/ \E k \in Futures : Read(k)
    \/ \E k \in Futures : Release(k)
    \/ \E k \in Futures : UploadAttempt(k)
    \/ Wait
    \/ Cancel
    \/ Report
    \/ Shutdown
    \/ Collect
    \/ Backstop
    \/ Complete
    \/ CommandExit

\* Every thread that can take a step is scheduled, every remote call and
\* every read of the archive returns: a run stops only where no step is
\* left to take.
SpecPool == InitPool /\ [][NextPool]_vars /\ WF_vars(NextPool)

\* ------------------------------------------- compress_files on its own
\* Every variable of upload, which compress_files leaves alone.
upload_vars ==
    <<do_not_compress, num_threads, file_size, part_size, upload_id, pc,
      plan_vars, list_vars, pool_vars, file_vars, calls, total_tree_hash,
      out>>

Entries == {Absent, Dir, Symlink} \cup {File(n) : n \in 0..MaxFileBytes}

\* The disks: a path names something only inside a directory.
Disks ==
    {f \in [Paths -> Entries] :
        \A q \in Paths :
            (f[q] # Absent /\ Parent[q] # ".") => f[Parent[q]] = Dir}

\* file_name.iterdir()
iterdir(file_name) == {q \in Paths : Parent[q] = file_name /\ disk[q] # Absent}

\* The orders in which iterdir may yield the entries of a directory.
RECURSIVE Orders(_)
Orders(S) ==
    IF S = {} THEN {<<>>}
    ELSE UNION {{<<x>> \o q : q \in Orders(S \ {x})} : x \in S}

\* The bytes of a set of regular files.
RECURSIVE st_size(_)
st_size(files) ==
    IF files = {} THEN 0
    ELSE LET file_ == CHOOSE q \in files : TRUE
         IN  disk[file_].size + st_size(files \ {file_})

\* calculate_directory_size: the bytes of the regular files under a
\* directory, symlinks skipped.
RECURSIVE calculate_directory_size(_, _)
calculate_directory_size(directories_to_walk, total_bytes) ==
    IF directories_to_walk = {} THEN total_bytes
    ELSE LET next_directory == CHOOSE q \in directories_to_walk : TRUE
             found == {q \in iterdir(next_directory) :
                          disk[q].kind # "symlink"}
         IN  calculate_directory_size(
                 (directories_to_walk \ {next_directory})
                     \cup {q \in found : disk[q].kind = "dir"},
                 total_bytes + st_size({q \in found : disk[q].kind = "file"}))

calculate_file_size(file_) ==
    IF disk[file_].kind = "dir" THEN calculate_directory_size({file_}, 0)
    ELSE disk[file_].size

\* sum(map(calculate_file_size, file_names))
RECURSIVE sum_of_file_sizes(_)
sum_of_file_sizes(names) ==
    IF names = <<>> THEN 0
    ELSE calculate_file_size(Head(names)) + sum_of_file_sizes(Tail(names))

\* tar.gettarinfo(str(file_name))
gettarinfo(file_name) ==
    [name |-> file_name,
     type |-> CASE disk[file_name].kind = "file" -> "REGTYPE"
                [] disk[file_name].kind = "dir" -> "DIRTYPE"
                [] OTHER -> "SYMTYPE",
     size |-> disk[file_name].size]

\* The except of compress_files: os.remove(compressed_file_path), raise.
CompressRaised(frame, exception) ==
    [frame EXCEPT !.at = "raised", !.exists = FALSE, !.exception = exception]

InitCompress ==
    /\ file_names = <<>>
    /\ do_not_compress = FALSE
    /\ num_threads = 1
    /\ upload_id = "None"
    /\ parts = <<>>
    /\ marker = FALSE
    /\ bar = 1
    /\ futures_list = <<>>
    /\ done = {}
    /\ not_done = {}
    /\ fileblock = 0
    /\ position = 0
    /\ closed = FALSE
    /\ calls = NoCalls
    /\ out = NoOutput
    /\ pc = "compress"
    /\ file_size = 0
    /\ part_size = 0
    /\ job_list = <<>>
    /\ num_parts = 0
    /\ list_of_checksums = <<>>
    /\ total_tree_hash = None
    /\ disk \in Disks
    /\ \E given \in SeqsUpTo({q \in Paths : Parent[q] = "." /\ disk[q] # Absent},
                              2) \ {<<>>} :
          tar = [NoTar EXCEPT !.at = "compress_files", !.given = given]

\* compress_files up to the loop of _compress_files: the check for symlinks,
\* tarfile.open, the total size.  file_names is the list the loop pops.
CompressFiles ==
    /\ tar.at = "compress_files"
    /\ IF \E k \in 1..Len(tar.given) : disk[tar.given[k]].kind = "symlink"
       THEN /\ tar' = [tar EXCEPT !.at = "raised", !.exception = "ValueError"]
            /\ UNCHANGED file_names
       ELSE /\ file_names' = tar.given
            /\ tar' = [tar EXCEPT !.at = "loop", !.exists = TRUE,
                                  !.total_bytes_to_compress =
                                      sum_of_file_sizes(tar.given)]
    /\ UNCHANGED <<disk, upload_vars>>

\* _compress_files: one turn of the while loop, or, the list being empty,
\* tar.close() and the summary; a division by a total of 0 bytes raises.
Compress ==
    /\ tar.at = "loop"
    /\ IF file_names = <<>>
       THEN /\ tar' = IF tar.total_bytes_to_compress = 0
                      THEN CompressRaised(tar, "ZeroDivisionError")
                      ELSE [tar EXCEPT !.at = "returned"]
            /\ UNCHANGED file_names
       ELSE LET file_name == file_names[Len(file_names)]
                popped == SubSeq(file_names, 1, Len(file_names) - 1)
                tarinfo == gettarinfo(file_name)
                added == [tar EXCEPT !.members = Append(@, tarinfo)]
            IN  IF tarinfo.type = "REGTYPE"
                THEN /\ file_names' = popped
                     /\ tar' = IF tar.total_bytes_to_compress = 0
                               THEN CompressRaised(added, "ZeroDivisionError")
                               ELSE [added EXCEPT !.total_bytes_compressed =
                                                      @ + tarinfo.size]
                ELSE IF tarinfo.type = "DIRTYPE"
                THEN /\ \E sub_files \in Orders(iterdir(file_name)) :
                           file_names' = popped \o sub_files
                     /\ tar' = added
                ELSE /\ file_names' = popped
                     /\ tar' = added
    /\ UNCHANGED <<disk, upload_vars>>

\* What tar.extractall leaves at a path of results_dir: the last member of
\* that name, a directory made for a member below it, or nothing.
extractall(members) ==
    [q \in Paths |->
        LET named == {k \in 1..Len(members) : members[k].name = q}
            last == members[CHOOSE k \in named : \A j \in named : j <= k]
        IN  IF named # {}
            THEN CASE last.type = "REGTYPE" -> File(last.size)
                   [] last.type = "DIRTYPE" -> Dir
                   [] OTHER -> Symlink
            ELSE IF \E k \in 1..Len(members) :
                       \/ Parent[members[k].name] = q
                       \/ /\ Parent[members[k].name] # "."
                          /\ Parent[Parent[members[k].name]] = q
                 THEN Dir
                 ELSE Absent]

\* get_job_output.decompress_file on the archive compress_files wrote.
DecompressFile ==
    /\ tar.at = "returned"
    /\ tar' = [tar EXCEPT !.at = "extracted",
                          !.extracted = extractall(tar.members)]
    /\ UNCHANGED <<disk, file_names, upload_vars>>

NextCompress ==
    \/ CompressFiles
    \/ Compress
    \/ DecompressFile

SpecCompress == InitCompress /\ [][NextCompress]_vars

\* ------------------------------------------------------------ the claims
\* One round of the reference reduction: adjacent digests paired left to
\* right, an unpaired trailing digest carried unchanged.
PairUp(digests) ==
    [j \in 1..((Len(digests) + 1) \div 2) |->
        IF 2 * j <= Len(digests)
        THEN sha256_pair(digests[2 * j - 1], digests[2 * j])
        ELSE digests[2 * j - 1]]

\* The reference Merkle reduction of a non-empty list of digests.
RECURSIVE MerkleReduction(_)
MerkleReduction(digests) ==
    IF Len(digests) = 1 THEN digests[1] ELSE MerkleReduction(PairUp(digests))

\* The largest power of two below n, for n >= 2.
RECURSIVE SplitPoint(_, _)
SplitPoint(k, n) == IF 2 * k < n THEN SplitPoint(2 * k, n) ELSE k

\* The same tree from the top: the root over the first 2^m digests and the
\* root over the rest, 2^m the largest power of two below the length.
RECURSIVE MerkleRoot(_)
MerkleRoot(digests) ==
    IF Len(digests) = 1 THEN digests[1]
    ELSE LET k == SplitPoint(1, Len(digests))
         IN  sha256_pair(MerkleRoot(SubSeq(digests, 1, k)),
                         MerkleRoot(SubSeq(digests, k + 1, Len(digests))))

\* The futures whose call ended in the else of the for loop, sys.exit(1).
Exhausted == {k \in Futures : futures_list[k].exception = "SystemExit"}

\* The futures whose call raised.
RaisedFutures ==
    {k \in Futures : futures_list[k].state = "FINISHED"
                        /\ futures_list[k].exception # "None"}

\* The futures whose call returned a checksum.
Returned ==
    {k \in Futures : futures_list[k].state = "FINISHED"
                        /\ futures_list[k].exception = "None"}

RECURSIVE SumOfCalls(_)
SumOfCalls(S) ==
    IF S = {} THEN 0
    ELSE LET k == CHOOSE k \in S : TRUE
         IN  futures_list[k].calls + SumOfCalls(S \ {k})

\* The tree hash of the part of the archive at an offset.
TreeHashAt(offset) ==
    calculate_tree_hash(read(offset, part_size, file_size), part_size)

\* C1: in every multipart run that fails during the transfer (an upload_part
\* job exhausted its attempts or raised), the upload id has been printed when
\* the process exits, whatever the order in which the jobs finished.
C1_UploadIdPrintedOnPoolFailure ==
    (pc = "exit" /\ RaisedFutures # {}) => out.upload_id_printed

\* C2: once a job has exhausted its attempts, complete_multipart_upload is
\* never called and the process ends with a nonzero exit status, whatever
\* the other jobs did.
C2_NoCompletionAfterExhaustion ==
    Exhausted # {} =>
        /\ calls.complete_multipart_upload = 0
        /\ pc \notin {"backstop", "complete", "returned"}
        /\ pc = "exit" => out.exit_status = 1

\* C2's case: the process has ended after one job exhausted its attempts and
\* another returned its checksum, every job having finished before wait
\* returned.
C2_Witness ==
    /\ pc = "exit"
    /\ Exhausted # {}
    /\ Returned # {}
    /\ done = Futures
    /\ out.exit_status = 1

\* C3: upload_part calls upload_multipart_part until the first attempt whose
\* checksum matches, at most MAX_ATTEMPTS times; every failed attempt, an
\* error or a mismatch, consumes one; a job that succeeds on attempt k has
\* made k calls and returns the tree hash of its part; a job whose
\* MAX_ATTEMPTS attempts failed has made MAX_ATTEMPTS calls and is fatal.
C3_AttemptsPerJob ==
    /\ \A k \in Futures :
          LET future == futures_list[k]
          IN  /\ future.calls <= MAX_ATTEMPTS
              /\ future.state \in {"PENDING", "CANCELLED"} => future.calls = 0
              /\ future.state = "RUNNING" =>
                    /\ future.calls = future.i
                    /\ future.i < MAX_ATTEMPTS
                    /\ future.checksum = None
              /\ k \in Returned =>
                    /\ future.calls = future.i + 1
                    /\ future.checksum = TreeHashAt(future.job)
              /\ k \in Exhausted =>
                    /\ future.calls = MAX_ATTEMPTS
                    /\ future.checksum = None
                    /\ pc = "exit" => out.exit_status = 1
              /\ future.exception = "ValueError" => future.calls = 0
    /\ calls.upload_multipart_part = SumOfCalls(Futures)

\* C3' case: a job succeeded on its last attempt, after MAX_ATTEMPTS - 1
\* failures, and the run ended in success.
C3_Witness ==
    /\ pc = "exit"
    /\ out.exit_status = 0
    /\ \E k \in Returned : futures_list[k].calls = MAX_ATTEMPTS

\* A fetched record whose checksum is the tree hash of the local bytes read
\* at its start offset.
Agrees(part_data) ==
    /\ len(read(byte_start_of(part_data), part_size, file_size)) > 0
    /\ TreeHashAt(byte_start_of(part_data)) = part_data.SHA256TreeHash

\* The records the verification loop has been through.
Seen == IF pc = "verify" THEN 1..(bar - 1) ELSE {}

AfterVerify ==
    {"spawn", "wait", "cancel", "shutdown", "collect", "backstop", "complete"}

\* C4: on resume no offset is removed from job_list whose record disagrees
\* with the local re-hash (no record of that offset agreeing), its entry in
\* list_of_checksums stays empty, every offset left in job_list is submitted,
\* and complete_multipart_upload is called only when each of them has been
\* uploaded with a matching checksum.
C4_DisagreeingPartUploadedAgain ==
    /\ \A n \in Seen :
          LET byte_start == byte_start_of(parts[n])
          IN  (/\ byte_start < file_size
               /\ \A m \in Seen : byte_start_of(parts[m]) = byte_start
                                     => ~Agrees(parts[m]))
              => /\ in(byte_start, job_list)
                 /\ list_of_checksums[byte_start \div part_size + 1] = None
    /\ pc \in AfterVerify \ {"spawn"} =>
          /\ Len(futures_list) = Len(job_list)
          /\ \A k \in Futures : futures_list[k].job = job_list[k]
    /\ calls.complete_multipart_upload > 0 =>
          \A k \in 1..Len(job_list) :
              /\ k \in Returned
              /\ futures_list[k].calls >= 1
              /\ futures_list[k].checksum = TreeHashAt(job_list[k])

\* C4's case: the loop is through a record of offset 0 that disagrees and a
\* record of the next part that agrees; offset 0 is what remains to upload.
C4_Witness ==
    /\ pc = "verify"
    /\ bar = 3
    /\ byte_start_of(parts[1]) = 0
    /\ ~Agrees(parts[1])
    /\ Agrees(parts[2])
    /\ job_list = <<0>>

\* C5: on resume every part whose record agrees with the local re-hash is
\* removed from job_list and its checksum stored at its part index; no
\* upload_multipart_part call is issued for an offset that is not in
\* job_list; when every part was verified no such call is issued at all and
\* the run goes on to complete_multipart_upload without a transfer.
C5_VerifiedPartsNotUploaded ==
    /\ \A n \in Seen :
          Agrees(parts[n]) =>
              /\ ~in(byte_start_of(parts[n]), job_list)
              /\ list_of_checksums[byte_start_of(parts[n]) \div part_size + 1]
                     = TreeHashAt(byte_start_of(parts[n]))
    /\ \A k \in Futures :
          futures_list[k].calls > 0 => in(futures_list[k].job, job_list)
    /\ (upload_id = "resumed" /\ num_parts > 0 /\ job_list = <<>>) =>
          /\ calls.upload_multipart_part = 0
          /\ pc \in AfterVerify =>
                /\ futures_list = <<>>
                /\ pc \notin {"cancel", "shutdown"}
                /\ ~total_tree_hash_raises(list_of_checksums)
          /\ pc = "returned" => calls.complete_multipart_upload = 1

\* C5's case: a resumed run of two parts, both verified, has ended in success
\* with one complete_multipart_upload call and no upload_multipart_part call.
C5_Witness ==
    /\ pc = "exit"
    /\ out.exit_status = 0
    /\ upload_id = "resumed"
    /\ num_parts = 2
    /\ job_list = <<>>
    /\ calls.complete_multipart_upload = 1
    /\ calls.upload_multipart_part = 0

\* C6: when complete_multipart_upload is called, list_of_checksums holds the
\* tree hash of every part at its part index, none missing, and the checksum
\* sent is the Merkle reduction of these in ascending part order: a value of
\* the archive and the part size alone, whatever the order in which the
\* workers finished and whichever parts were resumed.
C6_CompleteChecksum ==
    calls.complete_multipart_upload > 0 =>
        /\ Len(list_of_checksums) = num_parts
        /\ num_parts = (file_size + part_size - 1) \div part_size
        /\ \A n \in 1..num_parts :
              list_of_checksums[n] = TreeHashAt((n - 1) * part_size)
        /\ total_tree_hash = MerkleReduction(list_of_checksums)
        /\ total_tree_hash =
               MerkleRoot([n \in 1..num_parts |->
                              TreeHashAt((n - 1) * part_size)])

\* C6's case: complete_multipart_upload was called in a resumed run whose
\* first part was verified from the remote record and whose second part was
\* uploaded.
C6_Witness ==
    /\ calls.complete_multipart_upload = 1
    /\ upload_id = "resumed"
    /\ num_parts = 2
    /\ job_list = <<part_size>>
    /\ calls.upload_multipart_part >= 1

\* The positions of the main thread on the multipart path.
MultipartPath ==
    {"initiate", "list_parts", "list_more", "verify"} \cup AfterVerify

\* C7: upload takes the single request exactly when file_size < 4096; on that
\* path it issues one upload_archive call and no call of the multipart
\* operations, and on the multipart path no upload_archive call.
C7_SingleShotBelowLimit ==
    /\ pc = "upload_archive" => file_size < SingleShotLimit
    /\ pc \in MultipartPath => file_size >= SingleShotLimit
    /\ file_size < SingleShotLimit =>
          /\ calls.initiate_multipart_upload = 0
          /\ calls.list_parts = 0
          /\ calls.upload_multipart_part = 0
          /\ calls.complete_multipart_upload = 0
          /\ calls.upload_archive <= 1
          /\ pc = "returned" => calls.upload_archive = 1
    /\ file_size >= SingleShotLimit => calls.upload_archive = 0

\* C7's case: an archive of 4095 bytes was uploaded in one request.
C7_Witness ==
    /\ file_size = SingleShotLimit - 1
    /\ pc = "exit"
    /\ out.exit_status = 0
    /\ calls.upload_archive = 1

\* The file names upload_command refuses.
BadFileNames ==
    \/ \E k \in 1..Len(file_names) : file_names[k] = "symlink"
    \/ do_not_compress /\ Len(file_names) # 1
    \/ do_not_compress /\ file_names[1] # "file"

\* A --part-size that is no power of two of 1..4096.
BadPartSize == part_size \notin {2 ^ e : e \in 0..12}

\* C8: no remote call is made before the checks of the inputs; when the file
\* names hold a symlink or do not fit --do-not-compress, or the part size is
\* no power of two in [1, 4096], the check raises ValueError, and no remote
\* call is made in what is left of the run.
C8_NoCallOnBadInput ==
    /\ [](pc \in {"upload_command", "upload"} => calls = NoCalls)
    /\ [][/\ (pc = "upload_command" /\ BadFileNames) =>
                 /\ pc' = "exit"
                 /\ out'.exception = "ValueError"
                 /\ out'.exit_status = 1
          /\ (pc = "upload" /\ BadPartSize) =>
                 /\ pc' = "raised"
                 /\ out'.exception = "ValueError"
          /\ (pc \in {"raised", "exit"} /\ out.exception = "ValueError") =>
                 /\ calls' = calls
                 /\ pc' = "exit"
                 /\ out'.exit_status = 1]_vars

\* C8's case: the run has ended on a part size of 3 MiB, without a call.
C8_Witness ==
    /\ pc = "exit"
    /\ part_size = 3
    /\ out.exception = "ValueError"
    /\ out.exit_status = 1
    /\ calls = NoCalls

\* The bytes upload_part reads for the n-th job of job_list.
PartOfJob(n) == read(job_list[n], part_size, file_size)

\* C9: for every file size and power-of-two part size the planned job list
\* is the ascending offsets 0, part_size, 2 * part_size, ... below file_size;
\* the parts cover [0, file_size) without gap or overlap, every part but
\* possibly the last has part_size bytes, and there are
\* ceil(file_size / part_size) jobs.
C9_PlanCoversArchive ==
    pc = "planned" =>
        /\ Len(job_list) = (file_size + part_size - 1) \div part_size
        /\ num_parts = Len(job_list)
        /\ Len(list_of_checksums) = Len(job_list)
        /\ \A n \in 1..Len(job_list) :
              /\ job_list[n] = (n - 1) * part_size
              /\ job_list[n] < file_size
              /\ PartOfJob(n).lo = job_list[n]
              /\ PartOfJob(n).hi =
                     IF n < Len(job_list) THEN job_list[n + 1] ELSE file_size
              /\ n < Len(job_list) => len(PartOfJob(n)) = part_size
              /\ len(PartOfJob(n)) >= 1 /\ len(PartOfJob(n)) <= part_size

\* C9's case: a plan of several parts whose last part is shorter.
C9_Witness ==
    /\ pc = "planned"
    /\ Len(job_list) >= 3
    /\ file_size % part_size # 0

\* C10: calculate_total_tree_hash equals the reference Merkle reduction for
\* every non-empty list of digests: a singleton is returned unchanged,
\* adjacent digests are paired left to right, an unpaired trailing digest is
\* carried to the next round, until one digest remains; for two parts the
\* total is the hash of the two part digests concatenated.
C10_TotalTreeHashIsMerkleReduction ==
    pc = "hashed" =>
        /\ total_tree_hash = MerkleReduction(list_of_checksums)
        /\ total_tree_hash = MerkleRoot(list_of_checksums)
        /\ Len(list_of_checksums) = 1 => total_tree_hash = list_of_checksums[1]
        /\ Len(list_of_checksums) = 2 =>
              total_tree_hash =
                  sha256_pair(list_of_checksums[1], list_of_checksums[2])

\* C10's case: a list of five digests, whose last digest is carried through
\* two rounds.
C10_Witness ==
    /\ pc = "hashed"
    /\ Len(list_of_checksums) = 5
    /\ total_tree_hash =
           sha256_pair(
               sha256_pair(
                   sha256_pair(list_of_checksums[1], list_of_checksums[2]),
                   sha256_pair(list_of_checksums[3], list_of_checksums[4])),
               list_of_checksums[5])

\* The lines a completed upload prints when the service answers with the
\* checksum that was sent.
LinesOfAMatch ==
    {"Upload successful.", "Calculated total tree hash: %s",
     "Glacier total tree hash: %s", "Location: %s", "Archive ID: %s", "Done."}

\* The service answered complete_multipart_upload with another checksum
\* than the one sent.
FinalizeChecksumMismatch ==
    /\ out.glacier_checksum # None
    /\ out.glacier_checksum # total_tree_hash

\* C11: when the checksum complete_multipart_upload returns differs from the
\* total tree hash computed locally, the run prints a warning (a line a run
\* whose checksums agree does not print) and still ends with exit status 0.
C11_MismatchWarned ==
    FinalizeChecksumMismatch =>
        /\ out.printed \ LinesOfAMatch # {}
        /\ pc = "exit" => out.exit_status = 0

Reachable ==
    {q \in Paths :
        \/ in(q, tar.given)
        \/ Parent[q] # "." /\ in(Parent[q], tar.given)
        \/ /\ Parent[q] # "."
           /\ Parent[Parent[q]] # "."
           /\ in(Parent[Parent[q]], tar.given)}

\* The names given are regular files and directories.
NoSymlinkGiven ==
    \A k \in 1..Len(tar.given) : disk[tar.given[k]].kind \in {"file", "dir"}

\* C13: for every list of regular files and directories, compress_files
\* returns, having written an archive that is not empty and holds every
\* regular file and directory under the names given exactly once, and
\* decompress_file on that archive gives back the tree that went in.
C13_CompressRoundTrip ==
    NoSymlinkGiven =>
        /\ tar.at # "raised"
        /\ tar.at \in {"returned", "extracted"} =>
              /\ tar.exists
              /\ tar.members # <<>>
              /\ \A q \in Reachable :
                    disk[q].kind \in {"file", "dir"} =>
                        Cardinality({k \in 1..Len(tar.members) :
                                        tar.members[k].name = q}) = 1
        /\ tar.at = "extracted" =>
              \A q \in Paths :
                  tar.extracted[q] = IF q \in Reachable THEN disk[q] ELSE Absent

\* The workers between fileblock.acquire() and fileblock.release().
InSeekAndRead ==
    {k \in Futures : futures_list[k].at \in {"seek", "read", "release"}}

\* C14: at most one worker is in the seek and read of the archive, and the
\* lock is held by a worker exactly while that worker is there: by none that
\* is hashing or has an upload_multipart_part call in flight, and by none
\* that has left upload_part.
C14_LockHeldOnlyInSeekAndRead ==
    /\ Cardinality(InSeekAndRead) <= 1
    /\ \A k \in Futures : fileblock = k <=> k \in InSeekAndRead
    /\ fileblock # 0 => fileblock \in Futures

\* wait has returned with a job that raised and others not done: upload is
\* in, or past, the branch of len(not_done) > 0.
FatalDetected ==
    \/ pc \in {"cancel", "shutdown"}
    \/ pc \in {"raised", "exit"} /\ out.upload_id_printed

\* C15: once wait has returned with a job that raised, no job that had not
\* started is started, and list_of_checksums is not written nor
\* complete_multipart_upload called.
C15_NoStartAfterFatal ==
    [][FatalDetected =>
          /\ \A k \in Futures :
                futures_list[k].state = "PENDING" =>
                    futures_list'[k].state \in {"PENDING", "CANCELLED"}
          /\ list_of_checksums' = list_of_checksums
          /\ calls'.complete_multipart_upload = calls.complete_multipart_upload
      ]_vars

\* C16: every remote call and every read returning, every run of upload
\* ends, in success or in failure: the process exits.
C16_Terminates == <>(pc = "exit")

\* C17: in a run of the multipart path, fresh or resumed against any part
\* records, calculate_total_tree_hash is never handed an empty list: every
\* range re-read for a record, every part a worker read and the list of
\* part checksums hold something, and no IndexError is raised.
C17_NeverEmptyTreeHash ==
    /\ (pc = "verify" /\ bar <= Len(parts)) =>
          len(read(byte_start_of(parts[bar]), part_size, file_size)) > 0
    /\ \A k \in Futures :
          futures_list[k].at \in {"release", "upload"} =>
              chunk_checksums(futures_list[k].part, part_size) # <<>>
    /\ pc \in {"backstop", "complete"} => list_of_checksums # <<>>
    /\ out.exception # "IndexError"

\* C18: on resume list_parts is called again for as long as the last
\* response held a Marker, the records of each page are added after those
\* fetched before, the plan is made only when a response holds no Marker,
\* and the verification loop then goes through every fetched record in
\* turn, leaving only when none is left.
C18_PagesFollowed ==
    [][/\ (pc = "list_parts" /\ pc' = "list_more") => calls'.list_parts = 1
       /\ (pc = "list_more" /\ marker) =>
             /\ calls'.list_parts = calls.list_parts + 1
             /\ pc' \in {"list_more", "raised"}
             /\ pc' = "list_more" =>
                   /\ Len(parts') >= Len(parts)
                   /\ SubSeq(parts', 1, Len(parts)) = parts
       /\ (pc = "list_more" /\ ~marker) =>
             /\ pc' = "verify"
             /\ parts' = parts
             /\ bar' = 1
             /\ calls' = calls
       /\ (pc = "verify" /\ bar <= Len(parts)) =>
             \/ pc' = "raised"
             \/ pc' = "verify" /\ parts' = parts /\ bar' = bar + 1
       /\ (pc = "verify" /\ pc' = "spawn") => bar > Len(parts)
      ]_vars

\* C18's case: two list_parts calls fetched one record each; the loop is
\* through both, and the record of the second page, which agrees with the
\* archive, took its offset off job_list.
C18_Witness ==
    /\ pc = "verify"
    /\ calls.list_parts = 2
    /\ Len(parts) = 2
    /\ bar = 3
    /\ byte_start_of(parts[1]) # byte_start_of(parts[2])
    /\ Agrees(parts[2])
    /\ ~in(byte_start_of(parts[2]), job_list)

\* The positions of upload between the plan and complete_multipart_upload.
Planning == {"verify"} \cup AfterVerify

\* C19: from the plan on list_of_checksums has one place per planned part;
\* when every job has returned each place is filled, the lengths agree at
\* the test of the backstop, and the backstop recomputes nothing.
C19_BackstopNeverTaken ==
    /\ [](pc \in Planning =>
             /\ Len(list_of_checksums) = num_parts
             /\ num_parts = Len(range(0, file_size, part_size)))
    /\ [](pc = "backstop" =>
             \A n \in 1..num_parts : list_of_checksums[n] # None)
    /\ [][pc = "backstop" =>
             /\ list_of_checksums' = list_of_checksums
             /\ position' = position
             /\ pc' = "complete"]_vars

\* C19's case: a resumed run of two parts, one verified from its record and
\* one uploaded, has passed the test of the backstop.
C19_Witness ==
    /\ pc = "complete"
    /\ upload_id = "resumed"
    /\ num_parts = 2
    /\ Len(job_list) = 1
    /\ Len(futures_list) = 1
    /\ Len(list_of_checksums) = 2

\* How many times x is in a list.
count(list, x) == Cardinality({k \in 1..Len(list) : list[k] = x})

\* C20: whatever records list_parts returned, the same range twice or a
\* start offset outside the plan among them, the verification loop goes
\* through them without raising, and job_list holds, once each, the planned
\* offsets that no record seen so far agrees with.
C20_ReconcileTotal ==
    /\ [](pc = "verify" =>
             \A offset \in {(n - 1) * part_size : n \in 1..num_parts} :
                 count(job_list, offset) =
                     IF \E n \in Seen : /\ byte_start_of(parts[n]) = offset
                                        /\ Agrees(parts[n])
                     THEN 0 ELSE 1)
    /\ [](pc = "verify" => Len(job_list) <= num_parts)
    /\ [][pc = "verify" => pc' \in {"verify", "spawn"}]_vars

\* C21: a worker that has left upload_part, by returning or by raising in
\* the seek or the read, has released the lock: the lock is never held by a
\* future that is finished, so no running worker waits for a lock that
\* nobody is left to release.
C21_LockReleasedOnRaise ==
    /\ \A k \in Futures :
          futures_list[k].state # "RUNNING" => fileblock # k
    /\ \A k \in Futures :
          futures_list[k].at = "acquire" =>
              (fileblock = 0 \/ futures_list[fileblock].state = "RUNNING")

====
